---- MODULE Spec2Model ----
(***************************************************************************)
(* A model of chalice/utils.py: the deterministic zip writer               *)
(* (ChaliceZipFile), the directory packager (create_zip_file) and the      *)
(* filesystem helpers of OSUtils (remove_file, tempdir,                    *)
(* normalized_filename).                                                   *)
(*                                                                         *)
(* Paths are sequences of one-character strings, so that os.path's         *)
(* functions are modelled by what they do to the characters.  The host     *)
(* operating system is a state variable: "posix" (os.sep = "/") or "nt"    *)
(* (os.sep = "\\", os.altsep = "/").  The os.path functions follow         *)
(* CPython 3.11's posixpath.py and ntpath.py.                              *)
(***************************************************************************)
EXTENDS Integers, Sequences, FiniteSets, TLC

VARIABLES
    hostOs,     \* os.name of the host: "posix" or "nt"
    zip,        \* zip[r]: the ChaliceZipFile object of run r
    call,       \* call[r]: run r's last write(): its arguments, the source it
                \* found, the entries before it and how it ended
    walk,       \* walk[r]: create_zip_file's position in run r
    tree,       \* the relative file names both source directories hold
    tmp,        \* OSUtils.tempdir(): the scope, the filesystem under it
    rm          \* OSUtils.remove_file: the filesystem and the calls made

vars == <<hostOs, zip, call, walk, tree, tmp, rm>>

----------------------------------------------------------------------------
(* Strings.  The helpers are functions, so that their arguments are      *)
(* values by the time the body reads them.                                 *)

Str == Seq(STRING)
Comps == Seq(Str)
OsNames == {"posix", "nt"}

Dot == <<".">>
DotDot == <<".", ".">>

Min(S) == CHOOSE x \in S : \A y \in S : x <= y

\* str.replace(x, y) for one-character x and y
Replace[s \in Str, x \in STRING, y \in STRING] ==
    [i \in 1..Len(s) |-> IF s[i] = x THEN y ELSE s[i]]

\* str.find(c, start), 1-based; 0 when c does not occur from start on
Find[s \in Str, c \in STRING, start \in Nat] ==
    LET I == {i \in start..Len(s) : s[i] = c}
    IN  IF I = {} THEN 0 ELSE Min(I)

\* str.lstrip(c)
LStrip[s \in Str, c \in STRING] ==
    LET I == {i \in 1..Len(s) : s[i] # c}
    IN  IF I = {} THEN <<>> ELSE SubSeq(s, Min(I), Len(s))

StartsWith(s, c) == Len(s) >= 1 /\ s[1] = c

EndsWith(s, c) == Len(s) >= 1 /\ s[Len(s)] = c

\* str.split(c)
SplitOn[s \in Str, c \in STRING] ==
    LET i == Find[s, c, 1]
    IN  IF i = 0 THEN <<s>>
        ELSE <<SubSeq(s, 1, i - 1)>> \o SplitOn[SubSeq(s, i + 1, Len(s)), c]

\* c.join(comps)
JoinWith[comps \in Comps, c \in STRING] ==
    IF comps = <<>> THEN <<>>
    ELSE IF Len(comps) = 1 THEN comps[1]
    ELSE comps[1] \o <<c>> \o JoinWith[Tail(comps), c]

\* [x for x in comps if x]
NonEmpty[comps \in Comps] ==
    IF comps = <<>> THEN <<>>
    ELSE IF Head(comps) = <<>> THEN NonEmpty[Tail(comps)]
    ELSE <<Head(comps)>> \o NonEmpty[Tail(comps)]

\* del comps[i..j]
Del(comps, i, j) == SubSeq(comps, 1, i - 1) \o SubSeq(comps, j + 1, Len(comps))

----------------------------------------------------------------------------
(* os.path *)

Sep(os) == IF os = "nt" THEN "\\" ELSE "/"

\* ntpath.splitdrive: <<drive or UNC share point, rest>>
NtSplitDrive[p \in Str] ==
    IF Len(p) >= 2
    THEN LET normp == Replace[p, "/", "\\"]
         IN  IF normp[1] = "\\" /\ normp[2] = "\\"
             THEN LET index == Find[normp, "\\", 3]
                  IN  IF index = 0 THEN <<p, <<>>>>
                      ELSE LET index2 == Find[normp, "\\", index + 1]
                           IN  IF index2 = 0 THEN <<p, <<>>>>
                               ELSE <<SubSeq(p, 1, index2 - 1),
                                      SubSeq(p, index2, Len(p))>>
             ELSE IF normp[2] = ":"
             THEN <<SubSeq(p, 1, 2), SubSeq(p, 3, Len(p))>>
             ELSE <<<<>>, p>>
    ELSE <<<<>>, p>>

\* os.path.splitdrive (posixpath.splitdrive never finds a drive)
SplitDrive[os \in OsNames, p \in Str] ==
    IF os = "nt" THEN NtSplitDrive[p] ELSE <<<<>>, p>>

\* the loop of posixpath.normpath over the components
PosixCollapse[comps \in Comps, new \in Comps, initial \in Nat] ==
    IF comps = <<>> THEN new
    ELSE LET comp == Head(comps)
             rest == Tail(comps)
         IN  IF comp = <<>> \/ comp = Dot
             THEN PosixCollapse[rest, new, initial]
             ELSE IF \/ comp # DotDot
                     \/ (initial = 0 /\ new = <<>>)
                     \/ (new # <<>> /\ new[Len(new)] = DotDot)
             THEN PosixCollapse[rest, Append(new, comp), initial]
             ELSE IF new # <<>>
             THEN PosixCollapse[rest, SubSeq(new, 1, Len(new) - 1), initial]
             ELSE PosixCollapse[rest, new, initial]

PosixNormpath[path \in Str] ==
    IF path = <<>> THEN Dot
    ELSE LET initial == IF ~StartsWith(path, "/") THEN 0
                        ELSE IF Len(path) >= 2 /\ path[2] = "/"
                                /\ ~(Len(path) >= 3 /\ path[3] = "/")
                        THEN 2
                        ELSE 1
             comps == PosixCollapse[SplitOn[path, "/"], <<>>, initial]
             joined == [i \in 1..initial |-> "/"] \o JoinWith[comps, "/"]
         IN  IF joined = <<>> THEN Dot ELSE joined

\* the loop of ntpath.normpath over the components
NtCollapse[comps \in Comps, i \in Nat, rooted \in BOOLEAN] ==
    IF i > Len(comps) THEN comps
    ELSE IF comps[i] = <<>> \/ comps[i] = Dot
    THEN NtCollapse[Del(comps, i, i), i, rooted]
    ELSE IF comps[i] = DotDot
    THEN IF i > 1 /\ comps[i - 1] # DotDot
         THEN NtCollapse[Del(comps, i - 1, i), i - 1, rooted]
         ELSE IF i = 1 /\ rooted
         THEN NtCollapse[Del(comps, i, i), i, rooted]
         ELSE NtCollapse[comps, i + 1, rooted]
    ELSE NtCollapse[comps, i + 1, rooted]

\* ntpath.normpath after path.replace(altsep, sep) and splitdrive
NtNormpathSplit[drive \in Str, path \in Str] ==
    LET rooted == StartsWith(path, "\\")
        prefix == IF rooted THEN drive \o <<"\\">> ELSE drive
        comps == NtCollapse[SplitOn[LStrip[path, "\\"], "\\"], 1, rooted]
    IN  IF prefix = <<>> /\ comps = <<>> THEN Dot
        ELSE prefix \o JoinWith[comps, "\\"]

NtNormpathDrive[sd \in Seq(Str)] == NtNormpathSplit[sd[1], sd[2]]

NtNormpath[path \in Str] == NtNormpathDrive[NtSplitDrive[Replace[path, "/", "\\"]]]

\* os.path.normpath
Normpath[os \in OsNames, path \in Str] ==
    IF os = "nt" THEN NtNormpath[path] ELSE PosixNormpath[path]

\* os.path.isabs
IsAbs[os \in OsNames, s \in Str] ==
    IF os = "nt"
    THEN LET h == Replace[SubSeq(s, 1, IF Len(s) < 3 THEN Len(s) ELSE 3), "/", "\\"]
         IN  \/ StartsWith(h, "\\")
             \/ (Len(h) >= 3 /\ h[2] = ":" /\ h[3] = "\\")
    ELSE StartsWith(s, "/")

PosixJoin[a \in Str, b \in Str] ==
    IF StartsWith(b, "/") THEN b
    ELSE IF a = <<>> \/ EndsWith(a, "/") THEN a \o b
    ELSE a \o <<"/">> \o b

\* ntpath.join of two paths, each split into <<drive, rest>> (drive letters
\* are compared as written: the model's paths are lower-case)
NtJoinSplit[r \in Seq(Str), q \in Seq(Str)] ==
    LET absolute == q[2] # <<>> /\ q[2][1] \in {"\\", "/"}
        otherDrive == ~absolute /\ q[1] # <<>> /\ q[1] # r[1]
        result_drive == IF absolute
                        THEN (IF q[1] # <<>> \/ r[1] = <<>> THEN q[1] ELSE r[1])
                        ELSE IF otherDrive THEN q[1] ELSE r[1]
        result_path == IF absolute \/ otherDrive THEN q[2]
                       ELSE IF r[2] # <<>> /\ r[2][Len(r[2])] \notin {"\\", "/"}
                       THEN r[2] \o <<"\\">> \o q[2]
                       ELSE r[2] \o q[2]
    IN  IF /\ result_path # <<>>
           /\ result_path[1] \notin {"\\", "/"}
           /\ result_drive # <<>>
           /\ result_drive[Len(result_drive)] # ":"
        THEN result_drive \o <<"\\">> \o result_path
        ELSE result_drive \o result_path

NtJoin[path \in Str, p \in Str] == NtJoinSplit[NtSplitDrive[path], NtSplitDrive[p]]

\* os.path.join(a, b)
Join[os \in OsNames, a \in Str, b \in Str] ==
    IF os = "nt" THEN NtJoin[a, b] ELSE PosixJoin[a, b]

\* os.path.join(acc, *comps)
JoinAll[os \in OsNames, acc \in Str, comps \in Comps] ==
    IF comps = <<>> THEN acc
    ELSE JoinAll[os, Join[os, acc, Head(comps)], Tail(comps)]

\* os.getcwd(): where the process runs
Cwd(os) == IF os = "nt" THEN <<"c", ":", "\\", "w">> ELSE <<"/", "w">>

\* os.path.abspath (ntpath's is the fallback that does not ask Windows)
Abspath[os \in OsNames, path \in Str] ==
    Normpath[os, IF IsAbs[os, path] THEN path ELSE Join[os, Cwd(os), path]]

\* the length of the common prefix of two component lists
CommonLen[xs \in Comps, ys \in Comps] ==
    IF xs = <<>> \/ ys = <<>> \/ Head(xs) # Head(ys) THEN 0
    ELSE 1 + CommonLen[Tail(xs), Tail(ys)]

\* rel_list = [pardir] * (len(start_list) - i) + path_list[i:], joined
RelList[os \in OsNames, path_list \in Comps, start_list \in Comps] ==
    LET i == CommonLen[start_list, path_list]
        rel_list == [k \in 1..(Len(start_list) - i) |-> DotDot]
                        \o SubSeq(path_list, i + 1, Len(path_list))
    IN  IF rel_list = <<>> THEN Dot
        ELSE JoinAll[os, Head(rel_list), Tail(rel_list)]

\* os.path.relpath once both paths are absolute: ValueError (nt) when they
\* are on two drives
RelpathFromAbs[os \in OsNames, path_abs \in Str, start_abs \in Str] ==
    LET pd == SplitDrive[os, path_abs]
        sd == SplitDrive[os, start_abs]
    IN  IF pd[1] # sd[1] THEN [raises |-> TRUE, value |-> <<>>]
        ELSE [raises |-> FALSE,
              value |-> RelList[os, NonEmpty[SplitOn[pd[2], Sep(os)]],
                                    NonEmpty[SplitOn[sd[2], Sep(os)]]]]

\* ntpath.relpath normalizes each path before abspath, posixpath.relpath
\* does not
RelpathNorm[os \in OsNames, path \in Str] ==
    IF os = "nt" THEN Normpath[os, path] ELSE path

\* os.path.relpath(path, start): whether it raises ValueError, and its
\* value when it does not
relpath[os \in OsNames, path \in Str, start \in Str] ==
    IF path = <<>> THEN [raises |-> TRUE, value |-> <<>>]
    ELSE RelpathFromAbs[os, Abspath[os, RelpathNorm[os, path]],
                            Abspath[os, RelpathNorm[os, start]]]

----------------------------------------------------------------------------
(* OSUtils.normalized_filename and ChaliceZipFile *)

\* OSUtils.normalized_filename
normalized_filename[os \in OsNames, path \in Str] ==
    Normpath[os, SplitDrive[os, path][2]]

\* zipfile.ZipInfo.__init__: the entry name always uses forward slashes
ZipInfoFilename[os \in OsNames, filename \in Str] ==
    IF Sep(os) # "/" THEN Replace[filename, Sep(os), "/"] ELSE filename

\* optional arguments: None, or Some(value)
None == <<>>
Some(x) == <<x>>

ZIP_STORED == 0
ZIP_DEFLATED == 8

\* ChaliceZipFile._default_time_time
default_time_time == <<1980, 1, 1, 0, 0, 0>>

\* the name without arcname.lstrip(os.sep)
EntryNameKeepSeparator(os, filename, arcname) ==
    ZipInfoFilename[os,
        normalized_filename[os, IF arcname = None THEN filename ELSE arcname[1]]]

\* the name _create_zipinfo gives the entry: arcname, or filename when
\* arcname is None, through normalized_filename, lstrip(os.sep) and ZipInfo
EntryName(os, filename, arcname) ==
    ZipInfoFilename[os,
        LStrip[normalized_filename[os,
                   IF arcname = None THEN filename ELSE arcname[1]],
               Sep(os)]]

\* the timestamp ZipInfo.from_file would give: the file's mtime
EntryDateTimeFromStat(st) == st.st_mtime

\* the timestamp _create_zipinfo gives the entry
EntryDateTime(st) == default_time_time

\* A 32-bit unsigned field of the archive, as its two 16-bit halves
\* <<high, low>> (the model checker's integers are 32-bit signed).
Word32(n) == <<(n \div 65536) % 65536, n % 65536>>

\* w << 16, within 32 bits
ShiftLeft16(w) == <<w[2], 0>>

\* w >> 16
ShiftRight16(w) == <<0, w[1]>>

\* the masked mode, not shifted
ExternalAttrUnshifted(st) == Word32(st.st_mode % 65536)

\* zinfo.external_attr = (st.st_mode & 0xFFFF) << 16
ExternalAttr(st) == ShiftLeft16(Word32(st.st_mode % 65536))

\* zinfo.compress_type: compress_type or self.compression
CompressType(compress_type, compression) ==
    IF compress_type = None \/ compress_type[1] = 0
    THEN compression
    ELSE compress_type[1]

\* ChaliceZipFile._create_zipinfo, given what os.stat(filename) returned
create_zipinfo(os, compression, filename, arcname, compress_type, st) ==
    [filename      |-> EntryName(os, filename, arcname),
     date_time     |-> EntryDateTime(st),
     external_attr |-> ExternalAttr(st),
     file_size     |-> st.st_size,
     compress_type |-> CompressType(compress_type, compression)]

\* A source file as write() finds it: whether os.stat and open succeed, and
\* what they return.
Source(exists, readable, st_mode, st_mtime, data) ==
    [exists |-> exists, readable |-> readable, data |-> data,
     st |-> [st_mode |-> st_mode, st_size |-> Len(data), st_mtime |-> st_mtime]]

\* ChaliceZipFile.write without the failure paths: the entry is appended
\* whether or not the source could be read
write_unchecked(os, z, filename, arcname, compress_type, src) ==
    LET zinfo == create_zipinfo(os, z.compression, filename, arcname,
                                compress_type, src.st)
    IN  [zip |-> [z EXCEPT !.filelist = Append(@, [zinfo |-> zinfo, data |-> src.data])],
         err |-> IF src.exists /\ src.readable THEN "none" ELSE "OSError"]

\* ChaliceZipFile.write on an open archive: os.stat raises for a missing
\* file before anything is built, open() raises for an unreadable one
\* before writestr is reached; writestr sets file_size to len(data) and
\* appends the entry.
write(os, z, filename, arcname, compress_type, src) ==
    IF ~src.exists \/ ~src.readable
    THEN [zip |-> z, err |-> "OSError"]
    ELSE LET zinfo == create_zipinfo(os, z.compression, filename, arcname,
                                     compress_type, src.st)
             entry == [zinfo |-> [zinfo EXCEPT !.file_size = Len(src.data)],
                       data |-> src.data]
         IN  [zip |-> [z EXCEPT !.filelist = Append(@, entry)], err |-> "none"]

\* An archive object nobody has created yet.
NoZip == [state |-> "none", compression_arg |-> None, compression |-> ZIP_STORED,
          filelist |-> <<>>]

\* OSUtils.open_zip(filename, "w", compression): compression_arg is None
\* when the caller leaves the default
open_zip(compression_arg) ==
    [state |-> "open",
     compression_arg |-> compression_arg,
     compression |-> IF compression_arg = None THEN ZIP_DEFLATED
                     ELSE compression_arg[1],
     filelist |-> <<>>]

\* ZipFile.close(): the central directory is written, the entries stay
close(z) == [z EXCEPT !.state = "closed"]

Runs == {1, 2}

NoCall == <<>>

\* run r opens its archive
ZipOpen(r, compression_arg) ==
    /\ zip[r].state = "none"
    /\ zip' = [zip EXCEPT ![r] = open_zip(compression_arg)]
    /\ UNCHANGED <<hostOs, call, walk, tree, tmp, rm>>

\* run r calls write(filename, arcname, compress_type) and finds src
ZipWrite(r, filename, arcname, compress_type, src) ==
    /\ zip[r].state = "open"
    /\ \E res \in {write(hostOs, zip[r], filename, arcname, compress_type, src)} :
           /\ zip' = [zip EXCEPT ![r] = res.zip]
           /\ call' = [call EXCEPT ![r] =
                  <<[filename |-> filename, arcname |-> arcname,
                     compress_type |-> compress_type, src |-> src,
                     before |-> zip[r].filelist, err |-> res.err]>>]
    /\ UNCHANGED <<hostOs, walk, tree, tmp, rm>>

\* run r closes its archive
ZipClose(r) ==
    /\ zip[r].state = "open"
    /\ zip' = [zip EXCEPT ![r] = close(@)]
    /\ UNCHANGED <<hostOs, call, walk, tree, tmp, rm>>

\* The parts of the state a specification does not use.
NoWalk == [pc |-> "idle", source_dir |-> <<>>, order |-> "asc",
           pending |-> <<>>, seen |-> <<>>]
NoTmp == [pc |-> "idle", exists |-> FALSE, files |-> {}, body |-> "none",
          absent_at_exit |-> FALSE, had |-> {}, raised |-> "none"]
NoRm == [fs |-> <<>>, calls |-> 0, path |-> 0, repeat |-> FALSE,
         before |-> <<>>, raised |-> FALSE]

ZipIdle ==
    /\ zip = [r \in Runs |-> NoZip]
    /\ call = [r \in Runs |-> NoCall]
WalkIdle ==
    /\ walk = [r \in Runs |-> NoWalk]
    /\ tree = {}

----------------------------------------------------------------------------
(* Entry names: one write() with any path as the source path or arcname *)

MaxLen == 5

Chars == {"a", ".", "/", "\\", ":"}

Paths == UNION {[1..n -> Chars] : n \in 0..MaxLen}

RegularFile == Source(TRUE, TRUE, 33188, default_time_time, <<1>>)
Missing == Source(FALSE, FALSE, 0, default_time_time, <<>>)

InitName ==
    /\ hostOs \in {"posix", "nt"}
    /\ ZipIdle /\ WalkIdle
    /\ tmp = NoTmp /\ rm = NoRm

NameOpen == ZipOpen(1, None)

HasColon(s) == \E i \in 1..Len(s) : s[i] = ":"

\* The paths at which os.stat can find a file: not the empty path, and on
\* nt no path with a colon after its drive (a Windows file name holds none).
CanExist(os, path) ==
    /\ path # <<>>
    /\ os = "nt" => ~HasColon(NtSplitDrive[path][2])

\* write(path): the name is derived from the source path
NameWriteSource ==
    /\ call[1] = NoCall
    /\ \E path \in Paths :
          ZipWrite(1, path, None, None,
                   IF CanExist(hostOs, path) THEN RegularFile ELSE Missing)

\* write("a", path): the name is derived from the arcname
NameWriteArcname ==
    /\ call[1] = NoCall
    /\ \E path \in Paths : ZipWrite(1, <<"a">>, Some(path), None, RegularFile)

NextName == NameOpen \/ NameWriteSource \/ NameWriteArcname

SpecName == InitName /\ [][NextName]_vars

\* What the archive format asks of an entry name on this host.
NoLeadingSeparator(os, name) == ~StartsWith(name, "/") /\ ~StartsWith(name, Sep(os))
ForwardSlashSeparated(os, name) == \A i \in 1..Len(name) : name[i] = Sep(os) => name[i] = "/"
NoDrive(os, name) == SplitDrive[os, name][1] = <<>>
Relative(os, name) == ~IsAbs[os, name]
WellFormedName(os, name) ==
    /\ NoLeadingSeparator(os, name)
    /\ ForwardSlashSeparated(os, name)
    /\ NoDrive(os, name)
    /\ Relative(os, name)

\* the path the last write() of run r derived its entry name from
NamedFrom(r) ==
    IF call[r][1].arcname = None THEN call[r][1].filename ELSE call[r][1].arcname[1]

----------------------------------------------------------------------------
(* External attributes: one write() of a file with any st_mode *)

\* st_mode values run over 0..MaxMode: every 16-bit mode, and modes with
\* bits above the low 16
MaxMode == 131071

InitAttr ==
    /\ hostOs \in {"posix", "nt"}
    /\ ZipIdle /\ WalkIdle
    /\ tmp = NoTmp /\ rm = NoRm

AttrOpen == ZipOpen(1, None)

AttrWrite ==
    /\ zip[1].filelist = <<>>
    /\ \E st_mode \in 0..MaxMode :
          ZipWrite(1, <<"a">>, None, None,
                   Source(TRUE, TRUE, st_mode, default_time_time, <<1>>))

NextAttr == AttrOpen \/ AttrWrite

SpecAttr == InitAttr /\ [][NextAttr]_vars

\* C8: the external-attribute field of every entry has the low 16 bits of
\* the source's st_mode in its high 16 bits and zero in its low 16 bits, so
\* that shifting it right by 16 gives the mode bits back.
C8_ExternalAttr ==
    \A r \in Runs :
        (call[r] # NoCall /\ call[r][1].err = "none") =>
            LET attr == zip[r].filelist[Len(zip[r].filelist)].zinfo.external_attr
                mode == call[r][1].src.st.st_mode
            IN  /\ attr[1] = mode % 65536
                /\ attr[2] = 0
                /\ ShiftRight16(attr) = Word32(mode % 65536)

C8_Witness ==
    /\ call[1] # NoCall
    /\ call[1][1].src.st.st_mode = 98724
    /\ zip[1].filelist[1].zinfo.external_attr = <<33188, 0>>

----------------------------------------------------------------------------
(* ChaliceZipFile: an archive opened through open_zip, written to, closed *)

\* the most entries one archive of this specification takes
MaxEntries == 2

\* a modification time that is not the constant
SomeMtime == <<2017, 7, 14, 2, 40, 0>>

Mtimes == {default_time_time, SomeMtime}

Unreadable == Source(TRUE, FALSE, 33188, SomeMtime, <<1>>)

ZipSources ==
    {Missing, Unreadable} \cup {Source(TRUE, TRUE, 33188, m, <<1>>) : m \in Mtimes}

CompressArgs == {None, Some(ZIP_STORED), Some(ZIP_DEFLATED)}

InitZip ==
    /\ hostOs \in {"posix", "nt"}
    /\ ZipIdle /\ WalkIdle
    /\ tmp = NoTmp /\ rm = NoRm

ZipOpenAny == \E c \in CompressArgs : ZipOpen(1, c)

ZipWriteAny ==
    /\ Len(zip[1].filelist) < MaxEntries
    /\ \E c \in CompressArgs, src \in ZipSources :
          ZipWrite(1, <<"a">>, None, c, src)

ZipCloseAny == ZipClose(1)

NextZip == ZipOpenAny \/ ZipWriteAny \/ ZipCloseAny

SpecZip == InitZip /\ [][NextZip]_vars

\* the entry the last write() of run r appended
LastEntry(r) == zip[r].filelist[Len(zip[r].filelist)].zinfo

Wrote(r) == call[r] # NoCall /\ call[r][1].err = "none"

\* C3: in every state of an archive written through write(), every entry's
\* timestamp is the constant 1980-01-01 00:00:00, whatever the sources'
\* modification times.
C3_Timestamp ==
    \A r \in Runs : \A i \in 1..Len(zip[r].filelist) :
        zip[r].filelist[i].zinfo.date_time = <<1980, 1, 1, 0, 0, 0>>

C3_Witness ==
    /\ Len(zip[1].filelist) = 2
    /\ Wrote(1)
    /\ call[1][1].src.st.st_mtime # <<1980, 1, 1, 0, 0, 0>>

\* C9: an entry is deflated by default and stored whenever the caller passes
\* store for that entry, also in an archive whose default is deflate.
C9_Compression ==
    Wrote(1) =>
        /\ (call[1][1].compress_type = None /\ zip[1].compression_arg = None)
               => LastEntry(1).compress_type = ZIP_DEFLATED
        /\ call[1][1].compress_type = Some(ZIP_STORED)
               => LastEntry(1).compress_type = ZIP_STORED

----------------------------------------------------------------------------
(* create_zip_file: a run, and after it has completed a second run, over   *)
(* two source directories that hold the same relative file names           *)

\* file and directory names
A == <<"a">>
C == <<"c">>
BTxt == <<"b", ".", "t", "x", "t">>
DTxt == <<"d", ".", "t", "x", "t">>
AppPy == <<"a", "p", "p", ".", "p", "y">>

\* A tree is the set of its regular files, each the list of its path's
\* components below the source directory.
Trees ==
    { {},
      {<<AppPy>>},
      {<<A, BTxt>>, <<A, C, DTxt>>},
      {<<A>>, <<C>>},
      {<<A>>, <<C, A>>} }

IsPrefix(p, f) == Len(p) <= Len(f) /\ SubSeq(f, 1, Len(p)) = p

\* the regular files and the subdirectories of directory prefix
FilesIn(t, prefix) ==
    {f[Len(prefix) + 1] : f \in {g \in t : Len(g) = Len(prefix) + 1 /\ IsPrefix(prefix, g)}}
DirsIn(t, prefix) ==
    {f[Len(prefix) + 1] : f \in {g \in t : Len(g) > Len(prefix) + 1 /\ IsPrefix(prefix, g)}}

\* The host lists a directory in an order of its own: here by name,
\* ascending or descending.
NameOrder == <<A, AppPy, BTxt, C, DTxt>>
Rank(n) == CHOOSE i \in 1..Len(NameOrder) : NameOrder[i] = n

RECURSIVE Listing(_, _)
Listing(S, order) ==
    IF S = {} THEN <<>>
    ELSE LET x == CHOOSE x \in S : \A y \in S :
                      IF order = "asc" THEN Rank(x) <= Rank(y) ELSE Rank(x) >= Rank(y)
         IN  <<x>> \o Listing(S \ {x}, order)

\* os.walk(top), top-down: the files of each directory, then its
\* subdirectories in turn, each joined to its parent's path; one item
\* <<root, filename>> per file that create_zip_file's two loops reach
RECURSIVE os_walk(_, _, _, _, _)
RECURSIVE WalkDirs(_, _, _, _, _, _)
os_walk(os, t, top, prefix, order) ==
    LET files == Listing(FilesIn(t, prefix), order)
    IN  [i \in 1..Len(files) |->
            [root |-> top, filename |-> files[i], rel |-> Append(prefix, files[i])]]
        \o WalkDirs(os, t, top, prefix, order, Listing(DirsIn(t, prefix), order))
WalkDirs(os, t, top, prefix, order, dirs) ==
    IF dirs = <<>> THEN <<>>
    ELSE os_walk(os, t, Join[os, top, Head(dirs)], Append(prefix, Head(dirs)), order)
         \o WalkDirs(os, t, top, prefix, order, Tail(dirs))

\* the full name, not made relative to source_dir
ArchiveNameFull(os, full_name, source_dir) == [raises |-> FALSE, value |-> full_name]

\* archive_name = os.path.relpath(full_name, source_dir), or its ValueError
ArchiveName(os, full_name, source_dir) == relpath[os, full_name, source_dir]

\* the source_dir a caller may pass: relative, absolute, with a trailing
\* separator
SourceDirs(os) ==
    IF os = "nt"
    THEN {<<"s">>, <<"d", ":", "\\", "r", "/", "s", "\\">>}
    ELSE {<<"s">>, <<"/", "r", "/", "s", "/">>}

PkgSources ==
    {Missing, Unreadable}
    \cup {Source(TRUE, TRUE, f[1], m, f[2]) :
             f \in {<<33188, <<1>>>>, <<33261, <<1>>>>, <<33188, <<1, 2>>>>},
             m \in Mtimes}

InitPkg ==
    /\ hostOs \in {"posix", "nt"}
    /\ tree \in Trees
    /\ walk \in [Runs -> {[pc |-> "idle", source_dir |-> d, order |-> o,
                           pending |-> <<>>, seen |-> <<>>] :
                              d \in SourceDirs(hostOs), o \in {"asc", "desc"}}]
    /\ ZipIdle
    /\ tmp = NoTmp /\ rm = NoRm

\* with ChaliceZipFile(outfile, 'w', compression=ZIP_DEFLATED, ...) as z,
\* and the walk begins
PkgOpen(r) ==
    /\ walk[r].pc = "idle"
    /\ r = 2 => walk[1].pc = "done"
    /\ zip' = [zip EXCEPT ![r] = open_zip(Some(ZIP_DEFLATED))]
    /\ walk' = [walk EXCEPT ![r].pc = "walking",
                            ![r].pending = os_walk(hostOs, tree, walk[r].source_dir,
                                                   <<>>, walk[r].order)]
    /\ UNCHANGED <<hostOs, call, tree, tmp, rm>>

\* one turn of the inner loop: z.write(full_name, archive_name); an
\* exception leaves the with block, which closes the archive
PkgWrite(r) ==
    /\ walk[r].pc = "walking"
    /\ walk[r].pending # <<>>
    /\ \E src \in PkgSources,
          full_name \in {Join[hostOs, Head(walk[r].pending).root,
                                      Head(walk[r].pending).filename]} :
       \E archive_name \in {ArchiveName(hostOs, full_name, walk[r].source_dir)} :
       \E res \in {IF archive_name.raises
                   THEN [zip |-> zip[r], err |-> "ValueError"]
                   ELSE write(hostOs, zip[r], full_name, Some(archive_name.value),
                              None, src)} :
          /\ call' = [call EXCEPT ![r] =
                 <<[filename |-> full_name,
                    arcname |-> IF archive_name.raises THEN None
                                ELSE Some(archive_name.value),
                    compress_type |-> None, src |-> src,
                    before |-> zip[r].filelist, err |-> res.err]>>]
          /\ IF res.err = "none"
             THEN /\ zip' = [zip EXCEPT ![r] = res.zip]
                  /\ walk' = [walk EXCEPT
                         ![r].pending = Tail(@),
                         ![r].seen = Append(@, [rel |-> Head(walk[r].pending).rel,
                                                data |-> src.data,
                                                st_mode |-> src.st.st_mode])]
             ELSE /\ zip' = [zip EXCEPT ![r] = close(res.zip)]
                  /\ walk' = [walk EXCEPT ![r].pc = "failed"]
    /\ UNCHANGED <<hostOs, tree, tmp, rm>>

\* the walk is over: the with block closes the archive
PkgClose(r) ==
    /\ walk[r].pc = "walking"
    /\ walk[r].pending = <<>>
    /\ zip' = [zip EXCEPT ![r] = close(@)]
    /\ walk' = [walk EXCEPT ![r].pc = "done"]
    /\ UNCHANGED <<hostOs, call, tree, tmp, rm>>

NextPkg == \E r \in Runs : PkgOpen(r) \/ PkgWrite(r) \/ PkgClose(r)

SpecPkg == InitPkg /\ [][NextPkg]_vars

EntryNames(r) == {zip[r].filelist[i].zinfo.filename : i \in 1..Len(zip[r].filelist)}

\* C1: two runs over directories with the same relative names, contents
\* and modes, enumerated in the same order, give archives equal entry for
\* entry, whatever the modification times and the source directories.
C1_Deterministic ==
    (walk[1].pc = "done" /\ walk[2].pc = "done" /\ walk[1].seen = walk[2].seen)
        => zip[1].filelist = zip[2].filelist

C1_Witness ==
    /\ walk[1].pc = "done" /\ walk[2].pc = "done"
    /\ walk[1].seen = walk[2].seen
    /\ Len(walk[1].seen) = 2
    /\ walk[1].source_dir # walk[2].source_dir
    /\ call[1][1].src.st.st_mtime # call[2][1].src.st.st_mtime
    /\ zip[1].filelist = zip[2].filelist

\* C2: after create_zip_file completes, every regular file under
\* source_dir is in the archive exactly once, named by its path relative
\* to source_dir with forward slashes.
C2_EveryFileOnce ==
    \A r \in Runs :
        walk[r].pc = "done" =>
            /\ Len(zip[r].filelist) = Cardinality(tree)
            /\ \A f \in tree :
                   Cardinality({i \in 1..Len(zip[r].filelist) :
                       zip[r].filelist[i].zinfo.filename = JoinWith[f, "/"]}) = 1

C2_Witness ==
    /\ hostOs = "nt"
    /\ tree = {<<A, BTxt>>, <<A, C, DTxt>>}
    /\ walk[1].pc = "done"
    /\ EntryNames(1) = {<<"a", "/", "b", ".", "t", "x", "t">>,
                        <<"a", "/", "c", "/", "d", ".", "t", "x", "t">>}

\* C7: a write() on a missing or unreadable source fails with an I/O
\* error, adds no entry and leaves the earlier entries as they were, and
\* the archive is closed holding only those.
C7_FailedWrite ==
    \A r \in Runs :
        (call[r] # NoCall /\ (~call[r][1].src.exists \/ ~call[r][1].src.readable))
            => /\ call[r][1].err = "OSError"
               /\ walk[r].pc = "failed"
               /\ zip[r].filelist = call[r][1].before
               /\ zip[r].state = "closed"

C7_Witness ==
    /\ walk[1].pc = "failed"
    /\ call[1][1].err = "OSError"
    /\ ~call[1][1].src.exists
    /\ zip[1].state = "closed"
    /\ Len(zip[1].filelist) = 1

----------------------------------------------------------------------------
(* OSUtils.tempdir: one use of the context manager *)

\* the files a use-block may place in the directory: 1..MaxTmpFiles
MaxTmpFiles == 7

\* shutil.rmtree(tempdir): removes the directory and what it holds, and
\* raises OSError (FileNotFoundError) when the directory is not there
rmtree(t) ==
    IF t.exists THEN [exists |-> FALSE, files |-> {}, err |-> "none"]
    ELSE [exists |-> FALSE, files |-> {}, err |-> "OSError"]

\* The exit of the use-block, which returned or raised (failed): the
\* finally clause runs rmtree, and an exception rmtree raises replaces the
\* one in flight.
tempdir_exit(t, failed) ==
    [pc |-> "exited",
     exists |-> rmtree(t).exists,
     files |-> rmtree(t).files,
     body |-> IF failed THEN "raised" ELSE "returned",
     absent_at_exit |-> ~t.exists,
     had |-> t.files,
     raised |-> IF rmtree(t).err # "none" THEN "rmtree"
                ELSE IF failed THEN "body" ELSE "none"]

InitTemp ==
    /\ hostOs = "posix"
    /\ ZipIdle /\ WalkIdle
    /\ tmp = NoTmp /\ rm = NoRm

\* tempdir = tempfile.mkdtemp(); yield tempdir
TmpEnter ==
    /\ tmp.pc = "idle"
    /\ tmp' = [tmp EXCEPT !.pc = "body", !.exists = TRUE, !.files = {}]
    /\ UNCHANGED <<hostOs, zip, call, walk, tree, rm>>

\* the use-block places a file in the directory
TmpPut ==
    /\ tmp.pc = "body" /\ tmp.exists
    /\ \E f \in 1..MaxTmpFiles : tmp' = [tmp EXCEPT !.files = @ \cup {f}]
    /\ UNCHANGED <<hostOs, zip, call, walk, tree, rm>>

\* the directory is deleted while the use-block runs
TmpDelete ==
    /\ tmp.pc = "body" /\ tmp.exists
    /\ tmp' = [tmp EXCEPT !.exists = FALSE, !.files = {}]
    /\ UNCHANGED <<hostOs, zip, call, walk, tree, rm>>

\* the use-block returns
TmpReturn ==
    /\ tmp.pc = "body"
    /\ tmp' = tempdir_exit(tmp, FALSE)
    /\ UNCHANGED <<hostOs, zip, call, walk, tree, rm>>

\* the use-block raises
TmpRaise ==
    /\ tmp.pc = "body"
    /\ tmp' = tempdir_exit(tmp, TRUE)
    /\ UNCHANGED <<hostOs, zip, call, walk, tree, rm>>

NextTemp == TmpEnter \/ TmpPut \/ TmpDelete \/ TmpReturn \/ TmpRaise

SpecTemp == InitTemp /\ [][NextTemp]_vars

\* C4: after the use-block exits, normally or by a failure, the directory
\* and everything placed in it are gone, and a failure raised inside the
\* block is the one that reaches the caller.
C4_CleanupAndPropagate ==
    tmp.pc = "exited" =>
        /\ ~tmp.exists
        /\ tmp.files = {}
        /\ tmp.body = "raised" => tmp.raised = "body"

\* C5: when the directory is already gone at the exit of the scope, the
\* cleanup counts that as success: the exit itself raises nothing.
C5_AbsentIsSuccess ==
    (tmp.pc = "exited" /\ tmp.absent_at_exit) => tmp.raised # "rmtree"

----------------------------------------------------------------------------
(* OSUtils.remove_file: calls on the paths of a small file system *)

\* the paths are 1..MaxPaths; at most MaxCalls calls
MaxPaths == 3
MaxCalls == 3

RmPaths == 1..MaxPaths

Kinds == {"absent", "file", "dir"}

\* os.remove(filename): unlinks a file; raises OSError for a path that is
\* not there (FileNotFoundError) and for a directory (IsADirectoryError,
\* PermissionError)
os_remove(fs, filename) ==
    IF fs[filename] = "file"
    THEN [fs |-> [fs EXCEPT ![filename] = "absent"], err |-> "none"]
    ELSE [fs |-> fs, err |-> "OSError"]

\* os.remove(filename) alone, its OSError not caught
remove_file_unguarded(fs, filename) ==
    [fs |-> os_remove(fs, filename).fs,
     raised |-> os_remove(fs, filename).err # "none"]

\* try: os.remove(filename) / except OSError: pass
remove_file(fs, filename) ==
    [fs |-> os_remove(fs, filename).fs,
     raised |-> os_remove(fs, filename).err \notin {"none", "OSError"}]

InitRm ==
    /\ hostOs = "posix"
    /\ ZipIdle /\ WalkIdle
    /\ tmp = NoTmp
    /\ \E fs \in [RmPaths -> Kinds] :
          rm = [fs |-> fs, calls |-> 0, path |-> 0, repeat |-> FALSE,
                before |-> fs, raised |-> FALSE]

\* remove_file(filename); repeat records that the call before it, with
\* nothing in between, was on the same path
RmCall ==
    /\ rm.calls < MaxCalls
    /\ ~rm.raised
    /\ \E filename \in RmPaths :
          rm' = [fs |-> remove_file(rm.fs, filename).fs,
                 calls |-> rm.calls + 1,
                 path |-> filename,
                 repeat |-> rm.path = filename,
                 before |-> rm.fs,
                 raised |-> remove_file(rm.fs, filename).raised]
    /\ UNCHANGED <<hostOs, zip, call, walk, tree, tmp>>

\* between two calls, something creates a file at a path that is absent
RmCreate ==
    /\ rm.calls < MaxCalls
    /\ \E filename \in RmPaths :
          /\ rm.fs[filename] = "absent"
          /\ rm' = [rm EXCEPT !.fs[filename] = "file", !.path = 0,
                              !.repeat = FALSE]
    /\ UNCHANGED <<hostOs, zip, call, walk, tree, tmp>>

NextRm == RmCall \/ RmCreate

SpecRm == InitRm /\ [][NextRm]_vars

\* C6: a call on a path that holds a file or nothing leaves the path
\* absent and every other path as it was, and raises nothing; a call that
\* repeats the call before it changes nothing and raises nothing.
C6_Idempotent ==
    rm.path # 0 =>
        /\ ~rm.raised
        /\ rm.before[rm.path] # "dir" => rm.fs[rm.path] = "absent"
        /\ \A q \in RmPaths \ {rm.path} : rm.fs[q] = rm.before[q]
        /\ rm.repeat => rm.fs = rm.before

\* the second of two consecutive calls on one path, a file at another path
\* staying in place
C6_Witness ==
    /\ rm.calls = 2
    /\ rm.repeat
    /\ rm.before[rm.path] = "absent"
    /\ \E q \in RmPaths : q # rm.path /\ rm.fs[q] = "file"

====
